---- MODULE Spec2Model ----
(***************************************************************************)
(* A model of usb2mdio.py: the ASCII request/reply codec, the transaction  *)
(* engine (direct and extended register access with its bounded reply      *)
(* polling), the command interpreter and the script runner.                *)
(*                                                                         *)
(* Text is modelled as sequences of one-character strings, bytes as        *)
(* numbers 0..255, so that formatting and parsing are computed and not     *)
(* assumed.                                                                *)
(***************************************************************************)
EXTENDS Integers, Sequences, FiniteSets, TLC

VARIABLES
    phy_addr,      \* global phy_addr (line 103)
    ext,           \* global ext, "=" or "*" (line 106)
    pretty_print,  \* global pretty_print (line 101)
    regs_dict,     \* keys of the global regs_dict (line 104)
    fs,            \* the files open() can find: path -> text
    rx,            \* bytes the serial port holds for com_port.read
    tx,            \* requests written by com_port.write during the current command
    txn,           \* the RegCmd in progress, or NoTxn
    loop,          \* the scan / dump / register command in progress, or NoLoop
    cmdline,       \* the tokens CmdDecision was last called with
    scripts,       \* ExecScript frames: the commands each has still to run
    status,        \* "running", "crashed" (uncaught exception) or "exited" (quit)
    out,           \* what the last step printed
    last           \* the RegCmd that just returned: its arguments, the replies of
                   \* its last two requests and its result

vars == <<phy_addr, ext, pretty_print, regs_dict, fs, rx, tx, txn, loop,
          cmdline, scripts, status, out, last>>

-----------------------------------------------------------------------------
(* Characters, number formatting and number parsing                        *)

CR == 13
LF == 10

LowerHex == <<"0","1","2","3","4","5","6","7","8","9","a","b","c","d","e","f">>

\* The digits of n >= 0 in the given base, most significant first.
RECURSIVE Digits(_, _)
Digits(n, base) ==
    IF n < base THEN <<LowerHex[n + 1]>>
    ELSE Digits(n \div base, base) \o <<LowerHex[(n % base) + 1]>>

RECURSIVE ZeroPad(_, _)
ZeroPad(s, width) ==
    IF Len(s) >= width THEN s ELSE ZeroPad(<<"0">> \o s, width)

\* Python's format spec 0<width>d / 0<width>x: the sign counts in the width
\* and the zeros go between the sign and the digits; never truncates.
Format(n, width, base) ==
    IF n < 0 THEN <<"-">> \o ZeroPad(Digits(-n, base), width - 1)
    ELSE ZeroPad(Digits(n, base), width)

DigitValue(c) ==
    CASE c = "0" -> 0  [] c = "1" -> 1  [] c = "2" -> 2  [] c = "3" -> 3
      [] c = "4" -> 4  [] c = "5" -> 5  [] c = "6" -> 6  [] c = "7" -> 7
      [] c = "8" -> 8  [] c = "9" -> 9
      [] c \in {"a", "A"} -> 10  [] c \in {"b", "B"} -> 11
      [] c \in {"c", "C"} -> 12  [] c \in {"d", "D"} -> 13
      [] c \in {"e", "E"} -> 14  [] c \in {"f", "F"} -> 15
      [] OTHER -> 99

RECURSIVE DigitsValue(_, _, _)
DigitsValue(s, base, acc) ==
    IF s = <<>> THEN acc
    ELSE IF Head(s) = "_" THEN DigitsValue(Tail(s), base, acc)
    ELSE DigitsValue(Tail(s), base, acc * base + DigitValue(Head(s)))

\* Python's int(tok, base) for a token without whitespace: an optional sign,
\* for base 16 an optional 0x / 0X, then digits, single underscores allowed
\* between digits (and right after the prefix).  ok = FALSE is ValueError.
ParseInt(tok, base) ==
    LET signed   == tok # <<>> /\ Head(tok) \in {"+", "-"}
        body     == IF signed THEN Tail(tok) ELSE tok
        prefixed == base = 16 /\ Len(body) >= 2 /\ body[1] = "0"
                    /\ body[2] \in {"x", "X"}
        digs     == IF prefixed THEN SubSeq(body, 3, Len(body)) ELSE body
        wellformed ==
            /\ digs # <<>>
            /\ \A i \in 1..Len(digs) :
                  \/ DigitValue(digs[i]) < base
                  \/ /\ digs[i] = "_"
                     /\ i < Len(digs)
                     /\ digs[i + 1] # "_"
                     /\ (i > 1 \/ prefixed)
        mag      == DigitsValue(digs, base, 0)
    IN  IF wellformed
        THEN [ok |-> TRUE, val |-> IF signed /\ Head(tok) = "-" THEN -mag ELSE mag]
        ELSE [ok |-> FALSE, val |-> 0]

-----------------------------------------------------------------------------
(* Bit operations on non-negative integers                                 *)

RECURSIVE BitAnd(_, _)
BitAnd(a, b) ==
    IF a = 0 \/ b = 0 THEN 0
    ELSE (IF a % 2 = 1 /\ b % 2 = 1 THEN 1 ELSE 0) + 2 * BitAnd(a \div 2, b \div 2)

RECURSIVE BitOr(_, _)
BitOr(a, b) ==
    IF a = 0 THEN b
    ELSE IF b = 0 THEN a
    ELSE (IF a % 2 = 1 \/ b % 2 = 1 THEN 1 ELSE 0) + 2 * BitOr(a \div 2, b \div 2)

ShiftRight(a, n) == a \div (2 ^ n)

-----------------------------------------------------------------------------
(* Packet codec                                                            *)

\* An absent value (Python's None) is the empty sequence, a value v is <<v>>.
NoValue == <<>>

\* What ReceiveRegReply returns: None, or the received bytes without their CRs
\* (bytes); raw keeps the 6 bytes as com_port.read returned them.
NoneReply == [got |-> FALSE, raw |-> <<>>, bytes |-> <<>>]

\* What a step prints: a message, and the text or name that goes with it.
Printed(m, v) == [msg |-> m, val |-> v]
Nothing == Printed("", <<>>)

\* The request SendMspRequest assembles (lines 180-183).
Request(phy, e, addr, value) ==
    Format(phy, 2, 10) \o Format(addr, 4, 16)
        \o (IF value = NoValue THEN <<>> ELSE Format(value[1], 4, 16))
        \o <<e, "/">>

UpperHex == <<"0","1","2","3","4","5","6","7","8","9","A","B","C","D","E","F">>

\* The character of an ASCII byte, for the bytes the model's devices send.
Chr(b) ==
    CASE b \in 48..57  -> LowerHex[b - 47]
      [] b \in 65..70  -> UpperHex[b - 54]
      [] b \in 97..102 -> LowerHex[b - 86]
      [] b = LF        -> "\n"
      [] b = CR        -> "\r"
      [] OTHER         -> "?"

\* bytes.decode('utf-8') of ASCII bytes; a byte of 0xF8..0xFF is in no UTF-8
\* encoding and raises UnicodeDecodeError (ok = FALSE).
Decode(bs) ==
    IF \E i \in 1..Len(bs) : bs[i] >= 248
    THEN [ok |-> FALSE, str |-> <<>>]
    ELSE [ok |-> TRUE, str |-> [i \in 1..Len(bs) |-> Chr(bs[i])]]

\* pkt_reply[4]: raises TypeError on None and IndexError on a reply that the
\* CR filter left shorter than 5 bytes; "" when the subscript works.
Subscript4(pkt) ==
    IF ~pkt.got THEN "TypeError"
    ELSE IF Len(pkt.bytes) < 5 THEN "IndexError"
    ELSE ""

\* GetRegResult (lines 126-136): [raise, value, error]; raise # "" is the
\* exception that leaves the function.
GetRegResult(pkt) ==
    IF Subscript4(pkt) # ""
    THEN [raise |-> Subscript4(pkt), value |-> <<>>, error |-> ""]
    ELSE IF pkt.bytes[5] # LF
    THEN [raise |-> "", value |-> <<>>, error |-> "Invalid reply..."]
    ELSE LET d == Decode(SubSeq(pkt.bytes, 1, 4))
         IN  IF ~d.ok
             THEN [raise |-> "UnicodeDecodeError", value |-> <<>>, error |-> ""]
             ELSE [raise |-> "", value |-> <<"0", "x">> \o d.str, error |-> ""]

\* PrintRegResult (lines 138-156) under the given globals: what it prints, or
\* the exception that leaves it.
PrintRegResult(pkt, pretty, phy, regs) ==
    IF Subscript4(pkt) # ""
    THEN [raise |-> Subscript4(pkt), printed |-> Nothing]
    ELSE IF pkt.bytes[5] # LF
    THEN [raise |-> "", printed |-> Printed("Invalid reply...", <<>>)]
    ELSE LET d == Decode(SubSeq(pkt.bytes, 1, 4))
         IN  IF ~d.ok
             THEN [raise |-> "UnicodeDecodeError", printed |-> Nothing]
             ELSE IF d.str = <<>>
             THEN [raise |-> "", printed |-> Printed("No reply...", <<>>)]
             ELSE IF ~pretty
             THEN [raise |-> "", printed |-> Printed("value", <<"0", "x">> \o d.str)]
             ELSE IF phy \notin regs
             THEN [raise |-> "", printed |-> Printed("Pretty print is on and no register structure was given", <<>>)]
             ELSE IF ~ParseInt(d.str, 16).ok
             THEN [raise |-> "ValueError", printed |-> Nothing]
             ELSE [raise |-> "", printed |-> Printed("pretty", d.str)]

\* Mutant: only a carriage return right before the line feed is dropped.
StripCR_BeforeLF(bs) ==
    IF Len(bs) = 6 /\ bs[5] = CR THEN SubSeq(bs, 1, 4) \o <<bs[6]>> ELSE bs

\* Line 172: every carriage return is dropped from the received bytes.
StripCR(bs) == SelectSeq(bs, LAMBDA b : b # CR)

Reply(raw) == [got |-> TRUE, raw |-> raw, bytes |-> StripCR(raw)]

-----------------------------------------------------------------------------
(* Transaction engine                                                      *)

REGCR == 13
ADDAR == 14
\* Mutant: one read attempt more.
MaxAttempts_OneMore == 50 + 1
\* Line 161: range(0, 50).
MaxAttempts == 50
FlushSize == 350
DirectMax == 31

\* Mutant: the selector without its fallback for a zero nibble.
MmdOf_NoFallback(addr) == ShiftRight(BitAnd(addr, 61440), 12)

\* Lines 198-200.
MmdOf(addr) ==
    LET mmd == ShiftRight(BitAnd(addr, 61440), 12)
    IN  IF mmd = 0 THEN 31 ELSE mmd

\* Mutant: a write ends with its write-value request, without the read-back.
ReadWriteRegExtended_NoReadBack(e, addr, value) ==
    <<[ext |-> e, reg |-> REGCR, val |-> <<MmdOf(addr)>>],
      [ext |-> e, reg |-> ADDAR, val |-> <<addr>>],
      [ext |-> e, reg |-> REGCR, val |-> <<BitOr(MmdOf(addr), 16384)>>]>>
    \o (IF value # NoValue THEN <<[ext |-> e, reg |-> ADDAR, val |-> value]>>
        ELSE <<[ext |-> e, reg |-> ADDAR, val |-> NoValue]>>)

\* The SendMspRequest calls of ReadWriteRegExtended, in order (lines 203-216).
ReadWriteRegExtended(e, addr, value) ==
    <<[ext |-> e, reg |-> REGCR, val |-> <<MmdOf(addr)>>],
      [ext |-> e, reg |-> ADDAR, val |-> <<addr>>],
      [ext |-> e, reg |-> REGCR, val |-> <<BitOr(MmdOf(addr), 16384)>>]>>
    \o (IF value # NoValue THEN <<[ext |-> e, reg |-> ADDAR, val |-> value]>> ELSE <<>>)
    \o <<[ext |-> e, reg |-> ADDAR, val |-> NoValue]>>

\* Mutant: the direct request carries "=" whatever the session's mode is.
RegCmdSteps_PlainMode(addr, value, e) ==
    IF addr > DirectMax
    THEN ReadWriteRegExtended("=", addr, value)
    ELSE <<[ext |-> "=", reg |-> addr, val |-> value]>>

\* Mutant: the extended protocol is given the session's mode.
RegCmdSteps_ModePassed(addr, value, e) ==
    IF addr > DirectMax
    THEN ReadWriteRegExtended(e, addr, value)
    ELSE <<[ext |-> e, reg |-> addr, val |-> value]>>

\* The SendMspRequest calls one RegCmd makes (lines 221-224).
RegCmdSteps(addr, value, e) ==
    IF addr > DirectMax
    THEN ReadWriteRegExtended("=", addr, value)
    ELSE <<[ext |-> e, reg |-> addr, val |-> value]>>

\* Which reply ReadWriteRegExtended / RegCmd returns, of those of its two most
\* recent SendMspRequest calls: that of the last one (lines 216, 222-224, 233).
Returned(replies) == replies[Len(replies)]

-----------------------------------------------------------------------------
(* Control state                                                           *)

NoTxn == [active |-> FALSE, phy |-> 0, addr |-> 0, value |-> NoValue, ext |-> "=",
          quiet |-> FALSE, step |-> 0, attempts |-> 0, first |-> 0, replies |-> <<>>,
          lost |-> <<>>]

\* lost: the bytes that the short reads for the last request returned; line
\* 162 assigns each read to pkt_reply anew, so they are in no reply.
NoLast == [set |-> FALSE, phy |-> 0, addr |-> 0, value |-> NoValue, first |-> 0,
           replies |-> <<>>, ret |-> NoneReply, lost |-> <<>>]

\* kind "" is no command; busy is FALSE once the command has returned.  i is
\* the address of the read in flight, end the last address of a dump; orig and
\* found record, for a scan, phy_addr before it and the first address it
\* reported found (-1: none so far).
NoLoop == [kind |-> "", busy |-> FALSE, i |-> 0, end |-> 0, write |-> FALSE,
           orig |-> 0, found |-> -1]

Running == status = "running"
\* The interactive loop is at its prompt (line 486).
AtPrompt == Running /\ ~txn.active /\ ~loop.busy /\ scripts = <<>>

Take(s, n) == SubSeq(s, 1, IF Len(s) < n THEN Len(s) ELSE n)
Drop(s, n) == SubSeq(s, (IF Len(s) < n THEN Len(s) ELSE n) + 1, Len(s))

\* An uncaught exception ends the process where it stands.
Crash(exc) ==
    /\ status' = "crashed"
    /\ out' = Printed(exc, <<>>)

\* RegCmd up to its first com_port.write: the flush of line 219 and the first
\* SendMspRequest (lines 221-224, 190).  base is the log of requests so far.
BeginRegCmd(base, phy, addr, value, e, quiet) ==
    LET first == RegCmdSteps(addr, value, e)[1]
    IN  /\ rx' = Drop(rx, FlushSize)
        /\ tx' = Append(base, Request(phy, first.ext, first.reg, first.val))
        /\ txn' = [active |-> TRUE, phy |-> phy, addr |-> addr, value |-> value,
                   ext |-> e, quiet |-> quiet, step |-> 1, attempts |-> 0,
                   first |-> Len(base) + 1, replies |-> <<>>, lost |-> <<>>]
        /\ last' = NoLast

\* One pass of the loop of ReceiveRegReply (lines 161-167, 172-174) and, when
\* it ends the reply acquisition, what follows without waiting: the next
\* SendMspRequest of the extended protocol, or the end of RegCmd (lines
\* 226-233), with which a register command (RwRegs) has returned too.
ReadAttempt ==
    /\ Running /\ txn.active
    /\ LET pkt_reply == Take(rx, 6)
           n         == txn.attempts + 1
           steps     == RegCmdSteps(txn.addr, txn.value, txn.ext)
       IN  /\ rx' = Drop(rx, 6)
           /\ IF Len(pkt_reply) # 6 /\ n < MaxAttempts
              THEN /\ txn' = [txn EXCEPT !.attempts = n, !.lost = @ \o pkt_reply]
                   /\ out' = Nothing
                   /\ UNCHANGED <<tx, last, status>>
              ELSE LET reply   == IF Len(pkt_reply) = 6
                                  THEN Reply(pkt_reply) ELSE NoneReply
                       replies == IF txn.replies = <<>> THEN <<reply>>
                                  ELSE <<txn.replies[Len(txn.replies)], reply>>
                   IN  IF txn.step < Len(steps)
                       THEN LET nxt == steps[txn.step + 1]
                            IN  /\ tx' = Append(tx, Request(txn.phy, nxt.ext, nxt.reg, nxt.val))
                                /\ txn' = [txn EXCEPT !.step = txn.step + 1,
                                                      !.attempts = 0,
                                                      !.replies = replies,
                                                      !.lost = <<>>]
                                /\ out' = Nothing
                                /\ UNCHANGED <<last, status>>
                       ELSE LET ret == Returned(replies)
                                shown == PrintRegResult(ret, pretty_print, phy_addr, regs_dict)
                                record == [set |-> TRUE, phy |-> txn.phy, addr |-> txn.addr,
                                           value |-> txn.value, first |-> txn.first,
                                           replies |-> replies, ret |-> ret,
                                           lost |-> IF Len(pkt_reply) = 6 THEN txn.lost
                                                    ELSE txn.lost \o pkt_reply]
                            IN  /\ tx' = tx
                                /\ IF pretty_print \/ txn.quiet
                                   THEN /\ txn' = NoTxn
                                        /\ last' = record
                                        /\ out' = Nothing
                                        /\ status' = status
                                   ELSE IF shown.raise = ""
                                   THEN /\ txn' = NoTxn
                                        /\ last' = record
                                        /\ out' = shown.printed
                                        /\ status' = status
                                   ELSE IF shown.raise = "ValueError" /\ loop.write
                                   THEN \* caught at line 266
                                        /\ txn' = NoTxn
                                        /\ last' = record
                                        /\ out' = Printed("Invalid value...", <<>>)
                                        /\ status' = status
                                   ELSE /\ Crash(shown.raise)
                                        /\ txn' = txn
                                        /\ last' = record
    /\ loop' = IF status' = "running" /\ ~txn'.active /\ loop.kind = "rw"
               THEN [loop EXCEPT !.busy = FALSE] ELSE loop
    /\ UNCHANGED <<phy_addr, ext, pretty_print, regs_dict, fs, cmdline, scripts>>

\* The device answers the request in flight: its bytes reach the port after
\* some of the read attempts have come back short.
DeviceReply(r, delays) ==
    /\ Running /\ txn.active
    /\ rx = <<>>
    /\ txn.attempts \in delays
    /\ rx' = r
    /\ out' = Nothing
    /\ UNCHANGED <<phy_addr, ext, pretty_print, regs_dict, fs, tx, txn, loop,
                   cmdline, scripts, status, last>>

\* The device sends the next k bytes of its answer r to the request in
\* flight: an answer reaches the port in one piece or in several, between
\* any two read attempts.
DeviceSend(r, k) ==
    /\ Running /\ txn.active
    /\ LET sent == Len(txn.lost) + Len(rx)
       IN  /\ sent + k <= Len(r)
           /\ txn.lost \o rx = SubSeq(r, 1, sent)
           /\ rx' = rx \o SubSeq(r, sent + 1, sent + k)
    /\ out' = Nothing
    /\ UNCHANGED <<phy_addr, ext, pretty_print, regs_dict, fs, tx, txn, loop,
                   cmdline, scripts, status, last>>

-----------------------------------------------------------------------------
(* Command words                                                           *)

W_scan == <<"s","c","a","n">>
W_script == <<"s","c","r","i","p","t">>
W_regs == <<"r","e","g","s">>
W_info == <<"i","n","f","o">>
W_config == <<"c","o","n","f","i","g">>
W_phy == <<"p","h","y">>
W_dump == <<"d","u","m","p">>
W_ext == <<"e","x","t">>
W_pretty == <<"p","r","e","t","t","y">>
W_begin == <<"b","e","g","i","n">>
W_end == <<"e","n","d">>

\* Line 411 and line 414.
ExitWords ==
    {<<"e","x","i","t">>, <<"e","x","i","t","(",")">>, <<"q","u","i","t">>, <<"q","u","i","t","(",")">>, <<"q">>}
HelpWords ==
    {<<"h","e","l","p">>, <<"-","-","h","e","l","p">>, <<"h">>, <<"-","h">>, <<"?">>}
\* Lines 315 / 325 and 317 / 327.
Truthy ==
    {<<"y","e","s">>, <<"y">>, <<"Y","E","S">>, <<"Y">>, <<"t","r","u","e">>, <<"T","r","u","e">>, <<"1">>}
\* Mutant: N is accepted as the help text says.
Falsy_WithN ==
    {<<"n","o">>, <<"n">>, <<"N","O">>, <<"N">>, <<"f","a","l","s","e">>, <<"F","a","l","s","e">>, <<"0">>}
Falsy ==
    {<<"n","o">>, <<"n">>, <<"N","O">>, <<"n">>, <<"f","a","l","s","e">>, <<"F","a","l","s","e">>, <<"0">>}

-----------------------------------------------------------------------------
(* Script runner: the text processing of ExecScript                        *)

\* re.split('\n|\r|\n\r|\r\n', conts): the first two alternatives match every
\* single line feed or carriage return, so the text is cut at each of them.
RECURSIVE SplitLines(_, _)
SplitLines(text, cur) ==
    IF text = <<>> THEN <<cur>>
    ELSE IF Head(text) \in {"\n", "\r"}
    THEN <<cur>> \o SplitLines(Tail(text), <<>>)
    ELSE SplitLines(Tail(text), Append(cur, Head(text)))

\* line.split('//', 1)[0]: the text before the first "//".
RECURSIVE BeforeComment(_)
BeforeComment(line) ==
    IF line = <<>> THEN <<>>
    ELSE IF Len(line) >= 2 /\ line[1] = "/" /\ line[2] = "/" THEN <<>>
    ELSE <<Head(line)>> \o BeforeComment(Tail(line))

\* str.split(): the maximal runs of non-whitespace characters.
RECURSIVE SplitWords(_, _)
SplitWords(line, cur) ==
    IF line = <<>> THEN (IF cur = <<>> THEN <<>> ELSE <<cur>>)
    ELSE IF Head(line) \in {" ", "\t"}
    THEN (IF cur = <<>> THEN <<>> ELSE <<cur>>) \o SplitWords(Tail(line), <<>>)
    ELSE SplitWords(Tail(line), Append(cur, Head(line)))

\* Lines 425-433: the lines of the text, comments cut, empty ones dropped.
ScriptLines(text) ==
    LET conts == SplitLines(text, <<>>)
        temps == [i \in 1..Len(conts) |-> BeforeComment(conts[i])]
    IN  SelectSeq(temps, LAMBDA t : t # <<>>)

\* Mutant: only the first line is tested.
WellFramed_BeginOnly(cmds) ==
    /\ cmds # <<>>
    /\ cmds[1] = W_begin

\* Line 436: 'begin' in cmds[:1] and 'end' in cmds[-1:].
WellFramed(cmds) ==
    /\ cmds # <<>>
    /\ cmds[1] = W_begin
    /\ cmds[Len(cmds)] = W_end

\* Mutant: everything after the first command is deleted with end.
Body_FirstOnly(cmds) == SubSeq(cmds, 2, IF Len(cmds) > 2 THEN 2 ELSE 1)

\* Lines 440-441: del cmds[:1]; del cmds[-1:].
Body(cmds) == SubSeq(cmds, 2, Len(cmds) - 1)

\* ExecScript up to its loop (lines 425-441, 448-451): whether the text is
\* accepted, and the command lines it will run.
ExecScript(text) ==
    LET cmds == ScriptLines(text)
    IN  IF WellFramed(cmds)
        THEN [ok |-> TRUE, cmds |-> Body(cmds)]
        ELSE [ok |-> FALSE, cmds |-> <<>>]

-----------------------------------------------------------------------------
(* Command interpreter                                                     *)

ScanCount == 16
PHYIDR2 == 3
DumpLast == 31
MaxDepth == 2

\* A command that starts no transaction: nothing written, nothing in flight.
NoRegCmd(base, stack) ==
    /\ tx' = base
    /\ last' = NoLast
    /\ loop' = NoLoop
    /\ scripts' = stack
    /\ UNCHANGED <<rx, txn>>

Say(m, v, base, stack) ==
    /\ out' = Printed(m, v)
    /\ NoRegCmd(base, stack)
    /\ UNCHANGED <<phy_addr, ext, pretty_print, regs_dict, status>>

Die(exc, base, stack) ==
    /\ Crash(exc)
    /\ NoRegCmd(base, stack)
    /\ UNCHANGED <<phy_addr, ext, pretty_print, regs_dict>>

\* Mutant: a PHY address that does not parse unselects the PHY.
Config_BadPhyUnselects(usr_data, len_usr_data) ==
    LET same == [phy |-> phy_addr, ext |-> ext, pretty |-> pretty_print]
    IN  IF len_usr_data # 3
        THEN same @@ [printed |-> Printed("Pretty print: ", <<>>)]
        ELSE IF usr_data[2] = W_phy
        THEN LET p == ParseInt(usr_data[3], 10)
             IN  IF p.ok
                 THEN [same EXCEPT !.phy = p.val]
                          @@ [printed |-> Printed("PHY addr = ", Format(p.val, 2, 10))]
                 ELSE [same EXCEPT !.phy = -1]
                          @@ [printed |-> Printed("Invalid PHY address...", <<>>)]
        ELSE IF usr_data[2] = W_ext
        THEN LET e == IF usr_data[3] \in Truthy THEN "*"
                      ELSE IF usr_data[3] \in Falsy THEN "="
                      ELSE ext
             IN  [same EXCEPT !.ext = e]
                     @@ [printed |-> Printed("Extended register mode: ", <<e>>)]
        ELSE IF usr_data[2] = W_pretty
        THEN LET b == IF usr_data[3] \in Truthy THEN TRUE
                      ELSE IF usr_data[3] \in Falsy THEN FALSE
                      ELSE pretty_print
             IN  [same EXCEPT !.pretty = b]
                     @@ [printed |-> Printed("Pretty print: ", IF b THEN <<"T">> ELSE <<"F">>)]
        ELSE same @@ [printed |-> Nothing]

\* Config (lines 298-337): the globals after it and what it printed last.
Config(usr_data, len_usr_data) ==
    LET same == [phy |-> phy_addr, ext |-> ext, pretty |-> pretty_print]
    IN  IF len_usr_data # 3
        THEN same @@ [printed |-> Printed("Pretty print: ", <<>>)]
        ELSE IF usr_data[2] = W_phy
        THEN LET p == ParseInt(usr_data[3], 10)
             IN  IF p.ok
                 THEN [same EXCEPT !.phy = p.val]
                          @@ [printed |-> Printed("PHY addr = ", Format(p.val, 2, 10))]
                 ELSE same @@ [printed |-> Printed("Invalid PHY address...", <<>>)]
        ELSE IF usr_data[2] = W_ext
        THEN LET e == IF usr_data[3] \in Truthy THEN "*"
                      ELSE IF usr_data[3] \in Falsy THEN "="
                      ELSE ext
             IN  [same EXCEPT !.ext = e]
                     @@ [printed |-> Printed("Extended register mode: ", <<e>>)]
        ELSE IF usr_data[2] = W_pretty
        THEN LET b == IF usr_data[3] \in Truthy THEN TRUE
                      ELSE IF usr_data[3] \in Falsy THEN FALSE
                      ELSE pretty_print
             IN  [same EXCEPT !.pretty = b]
                     @@ [printed |-> Printed("Pretty print: ", IF b THEN <<"T">> ELSE <<"F">>)]
        ELSE same @@ [printed |-> Nothing]

DoConfig(usr_data, len_usr_data, base, stack) ==
    LET c == Config(usr_data, len_usr_data)
    IN  /\ phy_addr' = c.phy
        /\ ext' = c.ext
        /\ pretty_print' = c.pretty
        /\ out' = c.printed
        /\ NoRegCmd(base, stack)
        /\ UNCHANGED <<regs_dict, status>>

\* The register command, dump or scan that issues RegCmd calls.
StartLoop(l, base, phy, addr, value, quiet, m, stack) ==
    /\ loop' = l
    /\ BeginRegCmd(base, phy, addr, value, ext, quiet)
    /\ out' = m
    /\ scripts' = stack
    /\ UNCHANGED <<phy_addr, ext, pretty_print, regs_dict, status>>

\* RwRegs (lines 250-272) up to the first request of its WriteReg / ReadReg.
RwRegs(cmd, len_cmd, base, stack) ==
    LET a == ParseInt(cmd[1], 16)
    IN  IF ~a.ok THEN Say("Invalid command...", <<>>, base, stack)
        ELSE IF len_cmd = 2
        THEN LET v == ParseInt(cmd[2], 16)
             IN  IF ~v.ok THEN Say("Invalid value...", <<>>, base, stack)
                 ELSE StartLoop([NoLoop EXCEPT !.kind = "rw", !.busy = TRUE,
                                               !.i = a.val, !.write = TRUE],
                                base, phy_addr, a.val, <<v.val>>, FALSE, Nothing, stack)
        ELSE IF len_cmd = 1
        THEN StartLoop([NoLoop EXCEPT !.kind = "rw", !.busy = TRUE, !.i = a.val],
                       base, phy_addr, a.val, NoValue, FALSE, Nothing, stack)
        ELSE Say("Wrong number of args...", <<>>, base, stack)

\* The address range of DumpRegs (lines 277-291); ok = FALSE is "Bad argument...".
DumpRange(cmd, len_cmd) ==
    IF len_cmd = 1 THEN [ok |-> TRUE, start |-> 0, end |-> DumpLast]
    ELSE LET s == ParseInt(cmd[2], 16)
         IN  IF ~s.ok \/ len_cmd < 3 THEN [ok |-> FALSE, start |-> 0, end |-> 0]
             ELSE LET e == ParseInt(cmd[3], 16)
                  IN  IF ~e.ok THEN [ok |-> FALSE, start |-> 0, end |-> 0]
                      ELSE [ok |-> TRUE, start |-> s.val, end |-> e.val]

\* DumpRegs (lines 274-296) up to the first request of its first ReadReg.
DumpRegs(cmd, len_cmd, base, stack) ==
    LET r == DumpRange(cmd, len_cmd)
    IN  IF ~r.ok THEN Say("Bad argument...", <<>>, base, stack)
        ELSE IF r.start > r.end THEN Say("", <<>>, base, stack)
        ELSE StartLoop([NoLoop EXCEPT !.kind = "dump", !.busy = TRUE,
                                      !.i = r.start, !.end = r.end],
                       base, phy_addr, r.start, NoValue, FALSE, Nothing, stack)

\* CmdDecision (lines 339-419) for the tokens cmd, up to the first request it
\* writes.  base is the log of requests so far and stack the script frames
\* that wait for this command.
CmdDecision(cmd, base, stack) ==
    LET len_cmd == Len(cmd)
    IN  IF len_cmd = 0 THEN Die("IndexError", base, stack)
        ELSE IF cmd[1] = W_scan
        THEN StartLoop([NoLoop EXCEPT !.kind = "scan", !.busy = TRUE, !.i = 0,
                                      !.end = ScanCount - 1, !.orig = phy_addr],
                       base, 0, PHYIDR2, NoValue, TRUE,
                       Printed("Scanning for PHYs...", <<>>), stack)
        ELSE IF cmd[1] = W_script
        THEN IF len_cmd < 2 THEN Die("IndexError", base, stack)
             ELSE IF cmd[2] \notin DOMAIN fs
             THEN Say("Invalid file or file path...", <<>>, base, stack)
             ELSE LET run == ExecScript(fs[cmd[2]])
                  IN  IF ~run.ok THEN Say("Bad file format. ", <<>>, base, stack)
                      ELSE /\ Len(stack) < MaxDepth
                           /\ Say("Reading file:", cmd[2], base, Append(stack, run.cmds))
        ELSE IF cmd[1] = W_regs
        THEN IF len_cmd < 2
             THEN IF phy_addr \in regs_dict
                  THEN Say("regs", <<>>, base, stack)
                  ELSE Say("No register structure was given for PHY Address", <<>>, base, stack)
             ELSE IF cmd[2] \notin DOMAIN fs
             THEN Say("Invalid file or file path...", <<>>, base, stack)
             ELSE /\ regs_dict' = regs_dict \cup {phy_addr}
                  /\ out' = Printed("Reading file:", cmd[2])
                  /\ NoRegCmd(base, stack)
                  /\ UNCHANGED <<phy_addr, ext, pretty_print, status>>
        ELSE IF cmd[1] = W_info THEN Say("info", <<>>, base, stack)
        ELSE IF cmd[1] = W_config THEN DoConfig(cmd, len_cmd, base, stack)
        ELSE IF cmd[1] = W_phy
        THEN IF len_cmd < 2 THEN Die("IndexError", base, stack)
             ELSE DoConfig(<<W_config, cmd[1], cmd[2]>>, 3, base, stack)
        ELSE IF cmd[1] = W_dump THEN DumpRegs(cmd, len_cmd, base, stack)
        ELSE IF cmd[1] \in ExitWords
        THEN /\ status' = "exited"
             /\ out' = Nothing
             /\ NoRegCmd(base, stack)
             /\ UNCHANGED <<phy_addr, ext, pretty_print, regs_dict>>
        ELSE IF cmd[1] \in HelpWords THEN Say("help", <<>>, base, stack)
        ELSE RwRegs(cmd, len_cmd, base, stack)

\* The interactive loop (lines 485-494) reads a non-empty command line.
Input(cmd) ==
    /\ AtPrompt
    /\ cmd # <<>>
    /\ CmdDecision(cmd, <<>>, <<>>)
    /\ cmdline' = cmd
    /\ fs' = fs

\* The loop of ExecScript (lines 443-446): the next command line of the
\* innermost script, or its end and the file.close() of line 379.
ScriptStep ==
    /\ Running /\ ~txn.active /\ ~loop.busy /\ scripts # <<>>
    /\ LET n    == Len(scripts)
           cmds == scripts[n]
       IN  IF cmds = <<>>
           THEN /\ scripts' = SubSeq(scripts, 1, n - 1)
                /\ out' = Nothing
                /\ loop' = NoLoop
                /\ last' = NoLast
                /\ UNCHANGED <<phy_addr, ext, pretty_print, regs_dict, rx, tx, txn,
                               status, cmdline>>
           ELSE /\ CmdDecision(SplitWords(Head(cmds), <<>>), tx,
                               [scripts EXCEPT ![n] = Tail(cmds)])
                /\ cmdline' = SplitWords(Head(cmds), <<>>)
    /\ fs' = fs

\* DumpRegs after a ReadReg returned (lines 295-296): the next address.
DumpStep ==
    /\ Running /\ ~txn.active /\ loop.busy /\ loop.kind = "dump"
    /\ IF loop.i < loop.end
       THEN /\ loop' = [loop EXCEPT !.i = loop.i + 1]
            /\ BeginRegCmd(tx, phy_addr, loop.i + 1, NoValue, ext, FALSE)
       ELSE /\ loop' = [loop EXCEPT !.busy = FALSE]
            /\ UNCHANGED <<rx, tx, txn, last>>
    /\ out' = Nothing
    /\ UNCHANGED <<phy_addr, ext, pretty_print, regs_dict, fs, cmdline, scripts, status>>

\* Lines 360-365.
PhyType(id) ==
    IF id = <<"0","x","A","2","4","0">> THEN "DP83822"
    ELSE IF id = <<"0","x","0","1","8","1">> THEN "DP83TD510"
    ELSE "Unknown"

\* Line 353.
NotFoundId(id) == id = <<"0","0","0","0">> \/ id = <<"F","F","F","F">>

\* Mutant: every PHY found is selected.
Select_Every(phy, i, found) == IF found THEN i ELSE phy

\* Lines 367-368: the first PHY found is selected when none was.
Select(phy, i, found) == IF found /\ phy = -1 THEN i ELSE phy

\* The scan loop after its ReadReg returned (lines 349-371), then the ReadReg
\* of the next address (lines 346-348).
ScanStep ==
    /\ Running /\ ~txn.active /\ loop.busy /\ loop.kind = "scan"
    /\ LET result == GetRegResult(last.ret)
           found  == result.raise = "" /\ result.error = "" /\ ~NotFoundId(result.value)
           report == IF result.error # "" THEN Printed(result.error, <<>>)
                     ELSE IF ~found THEN Printed("Not found", <<>>)
                     ELSE IF phy_addr = -1
                     THEN Printed("Found & selected", result.value)
                     ELSE Printed("Found", result.value)
           seen   == [loop EXCEPT !.found = IF found /\ loop.found = -1
                                            THEN loop.i ELSE loop.found]
       IN  IF result.raise # ""
           THEN /\ Crash(result.raise)
                /\ UNCHANGED <<phy_addr, loop, rx, tx, txn, last>>
           ELSE /\ phy_addr' = Select(phy_addr, loop.i, found)
                /\ out' = report
                /\ status' = status
                /\ IF loop.i + 1 < ScanCount
                   THEN /\ loop' = [seen EXCEPT !.i = loop.i + 1]
                        /\ BeginRegCmd(tx, loop.i + 1, PHYIDR2, NoValue, ext, TRUE)
                   ELSE /\ loop' = [seen EXCEPT !.busy = FALSE]
                        /\ UNCHANGED <<rx, tx, txn, last>>
    /\ UNCHANGED <<ext, pretty_print, regs_dict, fs, cmdline, scripts>>

-----------------------------------------------------------------------------
(* Initial state, environment and specifications                           *)

\* The globals of lines 101-106 and a drained port (lines 467-471), with the
\* given files on disk.
InitWith(files) ==
    /\ phy_addr = -1
    /\ ext = "="
    /\ pretty_print = FALSE
    /\ regs_dict = {}
    /\ fs = files
    /\ rx = <<>>
    /\ tx = <<>>
    /\ txn = NoTxn
    /\ loop = NoLoop
    /\ cmdline = <<>>
    /\ scripts = <<>>
    /\ status = "running"
    /\ out = Nothing
    /\ last = NoLast

\* The device answers before the first read attempt or after up to MaxDelay
\* attempts have come back empty.
MaxDelay == 1
Delays == 0..MaxDelay

\* Replies of the device: "A240" CR LF, "12345" LF (no line feed at offset 4)
\* and "12" CR CR "3" LF (two carriage returns).
ReplyA240  == <<65, 50, 52, 48, 13, 10>>
ReplyNoLF  == <<49, 50, 51, 52, 53, 10>>
ReplyTwoCR == <<49, 50, 13, 13, 51, 10>>
Replies == {ReplyA240, ReplyNoLF, ReplyTwoCR}

Files ==
  (<<"s">> :> <<"b","e","g","i","n","\n","c","o","n","f","i","g"," ","e","x","t"," ","y","e","s"," ","/","/"," ","o","n","\n","\n","1","f","\n","e","n","d","\n">>) @@
    (<<"t">> :> <<"b","e","g","i","n","\n","s","c","r","i","p","t"," ","s","\n","2","\n">>)

Cmds ==
    { <<<<"c","o","n","f","i","g">>>>,
     <<<<"c","o","n","f","i","g">>, <<"p","h","y">>, <<"5">>>>,
     <<<<"c","o","n","f","i","g">>, <<"e","x","t">>, <<"y","e","s">>>>,
     <<<<"c","o","n","f","i","g">>, <<"e","x","t">>, <<"n","o">>>>,
     <<<<"c","o","n","f","i","g">>, <<"p","r","e","t","t","y">>, <<"y","e","s">>>>,
     <<<<"c","o","n","f","i","g">>, <<"p","r","e","t","t","y">>, <<"n","o">>>>,
     <<<<"c","o","n","f","i","g">>, <<"p","h","y">>>>,
     <<<<"p","h","y">>, <<"5">>>>,
     <<<<"p","h","y">>>>,
     <<<<"1">>>>,
     <<<<"1">>, <<"a","2","4","0">>>>,
     <<<<"4","0","0","3">>>>,
     <<<<"1","2","3">>, <<"f","f">>>>,
     <<<<"z","z">>>>,
     <<<<"1">>, <<"z","z">>>>,
     <<<<"1">>, <<"2">>, <<"3">>>>,
     <<<<"s","c","r","i","p","t">>>>,
     <<<<"s","c","r","i","p","t">>, <<"s">>>>,
     <<<<"s","c","r","i","p","t">>, <<"t">>>>,
     <<<<"s","c","r","i","p","t">>, <<"n","o","f","i","l","e">>>>,
     <<<<"r","e","g","s">>>>,
     <<<<"r","e","g","s">>, <<"s">>>>,
     <<<<"i","n","f","o">>>>,
     <<<<"h","e","l","p">>>>,
     <<<<"q">>>>,
     <<<<"d","u","m","p">>, <<"1","f">>, <<"2","0">>>>,
     <<<<"d","u","m","p">>, <<"1">>>> }

Init == InitWith(Files)

Next ==
    \/ \E cmd \in Cmds : Input(cmd)
    \/ ScriptStep
    \/ DumpStep
    \/ ReadAttempt
    \/ \E r \in Replies : DeviceReply(r, Delays)

Spec == Init /\ [][Next]_vars

-----------------------------------------------------------------------------
(* Extended register access: register commands around and beyond the direct *)
(* window, under every reply and timeout of the device                      *)

ExtCmds ==
    { <<<<"c","o","n","f","i","g">>, <<"p","h","y">>, <<"5">>>>,
     <<<<"c","o","n","f","i","g">>, <<"e","x","t">>, <<"y","e","s">>>>,
     <<<<"1","f">>>>,
     <<<<"2","0">>>>,
     <<<<"1","2","3">>>>,
     <<<<"0","f","f","f">>>>,
     <<<<"1","0","0","0">>>>,
     <<<<"4","0","0","3">>>>,
     <<<<"f","0","0","d">>>>,
     <<<<"f","f","f","f">>>>,
     <<<<"1","2","3","4","5">>>>,
     <<<<"2","0">>, <<"0">>>>,
     <<<<"1","2","3">>, <<"a","2","4","0">>>>,
     <<<<"4","0","0","3">>, <<"f","f","f","f">>>> }

NextExt ==
    \/ \E cmd \in ExtCmds : Input(cmd)
    \/ ReadAttempt
    \/ \E r \in Replies : DeviceReply(r, Delays)

SpecExt == Init /\ [][NextExt]_vars

\* The requests written since the RegCmd that began at tx[first].
Sent(first) == SubSeq(tx, first, Len(tx))

\* The five steps of the extended protocol as the specification lists them.
ExtRequests(phy, a, value) ==
    <<Request(phy, "=", 13, <<MmdOf(a)>>),
      Request(phy, "=", 14, <<a>>),
      Request(phy, "=", 13, <<MmdOf(a) + 16384>>)>>
    \o (IF value = NoValue THEN <<>> ELSE <<Request(phy, "=", 14, value)>>)
    \o <<Request(phy, "=", 14, NoValue)>>

\* C1: a register command with address a > 31 writes, whatever the device
\* answers or fails to answer on the way, the requests select-MMD (0x0D),
\* select-address (0x0E), select-data-mode (0x0D), [write-value (0x0E)],
\* read-back (0x0E) in this order, 4 of them for a read and 5 for a write, and
\* returns the reply of the read-back alone.
C1_ExtendedOrder ==
    /\ (txn.active /\ txn.addr > 31) =>
          Sent(txn.first) = SubSeq(ExtRequests(txn.phy, txn.addr, txn.value), 1, txn.step)
    /\ (last.set /\ last.addr > 31) =>
          /\ Sent(last.first) = ExtRequests(last.phy, last.addr, last.value)
          /\ Len(Sent(last.first)) = IF last.value = NoValue THEN 4 ELSE 5
          /\ last.ret = last.replies[Len(last.replies)]

\* An extended write has returned the reply of its read-back after the
\* write-value request before it had timed out.
C1_Witness ==
    /\ status = "running"
    /\ last.set /\ last.addr > 31 /\ last.value # NoValue
    /\ Len(Sent(last.first)) = 5
    /\ ~last.replies[1].got
    /\ last.ret.got

Hex4(n) ==
    <<LowerHex[((n \div 4096) % 16) + 1], LowerHex[((n \div 256) % 16) + 1],
      LowerHex[((n \div 16) % 16) + 1], LowerHex[(n % 16) + 1]>>

\* The value field of a write request whose PHY field is two characters wide.
ValueField(req) == SubSeq(req, 7, 10)

\* The arguments and first request index of the RegCmd in progress or just returned.
Current == IF txn.active THEN [on |-> TRUE, addr |-> txn.addr, first |-> txn.first]
           ELSE [on |-> last.set, addr |-> last.addr, first |-> last.first]

\* C2: for 32 <= a <= 0xFFFF the first request of the extended protocol
\* carries bits 15..12 of a, or 0x1F when they are zero (0x4003 gives 0x4,
\* 0x0123 gives 0x1F), and the third request carries that selector with bit
\* 14 set.
C2_Selector ==
    (Current.on /\ Current.addr \in 32..65535) =>
        LET a      == Current.addr
            nibble == (a \div 4096) % 16
            sel    == IF nibble = 0 THEN 31 ELSE nibble
            sent   == Sent(Current.first)
        IN  /\ ValueField(sent[1]) = Hex4(sel)
            /\ a = 16387 => ValueField(sent[1]) = <<"0","0","0","4">>
            /\ a = 291 => ValueField(sent[1]) = <<"0","0","1","f">>
            /\ Len(sent) >= 3 => ValueField(sent[3]) = Hex4(sel + 16384)

\* The read of 0x0123 has written its third request, carrying 0x401f.
C2_Witness ==
    /\ last.set /\ last.addr = 291
    /\ ValueField(Sent(last.first)[3]) = <<"4","0","1","f">>

-----------------------------------------------------------------------------
(* Reply decoding: one register read under every 6-byte reply over a small  *)
(* byte alphabet                                                            *)

\* "1", carriage return, line feed and a byte no UTF-8 text contains.
ReplyBytes == {49, CR, LF, 255}
AllReplies == [1..6 -> ReplyBytes]

ReplyCmds ==
    { <<<<"1">>>>,
     <<<<"c","o","n","f","i","g">>, <<"p","r","e","t","t","y">>, <<"y","e","s">>>> }

NextReply ==
    \/ \E cmd \in ReplyCmds : Input(cmd)
    \/ ReadAttempt
    \/ \E r \in AllReplies : DeviceReply(r, Delays)

SpecReply == Init /\ [][NextReply]_vars

\* C3: a 6-byte reply whose byte at offset 4 is not a line feed ends the
\* transaction with "Invalid reply...", whatever its other bytes are: it is
\* not decoded as a value and does not fail the decoder otherwise.
C3_NoLineFeedIsInvalid ==
    (last.set /\ last.ret.got /\ last.ret.raw[5] # LF /\ ~pretty_print) =>
        /\ status = "running"
        /\ out = Printed("Invalid reply...", <<>>)

-----------------------------------------------------------------------------
(* Register writes in the direct window, answered by well-formed replies    *)

HexByte(d, upper) == IF d < 10 THEN 48 + d ELSE (IF upper THEN 55 ELSE 87) + d

\* The reply of a device that echoes v: its 4 hex digits, upper or lower case,
\* a carriage return before the digit at position at (5: after the last), and
\* a line feed.
EchoReply(v, upper, at) ==
    LET digits == <<HexByte((v \div 4096) % 16, upper), HexByte((v \div 256) % 16, upper),
                    HexByte((v \div 16) % 16, upper), HexByte(v % 16, upper)>>
    IN  SubSeq(digits, 1, at - 1) \o <<CR>> \o SubSeq(digits, at, 4) \o <<LF>>

\* 0x0000, 0x0001, 0xa240 and 0xffff.
EchoValues == {0, 1, 41536, 65535}
EchoReplies == {EchoReply(v, u, at) : v \in EchoValues, u \in BOOLEAN, at \in 1..5}

WriteCmds ==
    { <<<<"c","o","n","f","i","g">>, <<"p","h","y">>, <<"5">>>>,
     <<<<"c","o","n","f","i","g">>, <<"e","x","t">>, <<"y","e","s">>>>,
     <<<<"c","o","n","f","i","g">>, <<"p","r","e","t","t","y">>, <<"y","e","s">>>>,
     <<<<"0">>, <<"0">>>>,
     <<<<"0">>, <<"1">>>>,
     <<<<"1","f">>, <<"a","2","4","0">>>>,
     <<<<"1","f">>, <<"f","f","f","f">>>>,
     <<<<"a">>, <<"1">>>>,
     <<<<"a">>, <<"A","2","4","0">>>>,
     <<<<"1","f">>, <<"0">>>> }

NextWrite ==
    \/ \E cmd \in WriteCmds : Input(cmd)
    \/ ReadAttempt
    \/ \E r \in EchoReplies \cup Replies : DeviceReply(r, Delays)

SpecWrite == Init /\ [][NextWrite]_vars

HexByteValue(b) ==
    IF b \in 48..57 THEN b - 48
    ELSE IF b \in 65..70 THEN b - 55
    ELSE IF b \in 97..102 THEN b - 87
    ELSE -1

\* raw is 6 bytes: the 4 hex digits of v with one carriage return somewhere
\* among or after them, then a line feed.
WellFormedReplyFor(raw, v) ==
    /\ Len(raw) = 6
    /\ raw[6] = LF
    /\ \E at \in 1..5 :
          /\ raw[at] = CR
          /\ LET digits == SubSeq(raw, 1, at - 1) \o SubSeq(raw, at + 1, 5)
             IN  /\ HexByteValue(digits[1]) = (v \div 4096) % 16
                 /\ HexByteValue(digits[2]) = (v \div 256) % 16
                 /\ HexByteValue(digits[3]) = (v \div 16) % 16
                 /\ HexByteValue(digits[4]) = v % 16

\* C4: a write of v (0..0xFFFF) to a (0..31) sends one request whose address
\* and value fields are a and v in 4 lowercase hex digits, and when the reply
\* is well formed and carries the digits of v, the decoded result is v.
C4_WriteRoundTrip ==
    (last.set /\ loop.kind = "rw" /\ loop.write
        /\ last.addr \in 0..31 /\ last.value[1] \in 0..65535) =>
        LET a    == last.addr
            v    == last.value[1]
            sent == Sent(last.first)
            res  == GetRegResult(last.ret)
        IN  /\ Len(sent) = 1
            /\ Len(sent[1]) = 12
            /\ SubSeq(sent[1], 3, 6) = Hex4(a)
            /\ SubSeq(sent[1], 7, 10) = Hex4(v)
            /\ WellFormedReplyFor(last.ret.raw, v) =>
                  /\ res.raise = "" /\ res.error = ""
                  /\ ParseInt(res.value, 16) = [ok |-> TRUE, val |-> v]
                  /\ ~pretty_print =>
                        /\ status = "running"
                        /\ out.msg = "value"
                        /\ ParseInt(out.val, 16) = [ok |-> TRUE, val |-> v]

\* The write of 0xa240 to register 0x1f was answered CR "A240" LF and printed 0xA240.
C4_Witness ==
    /\ last.set /\ loop.kind = "rw" /\ loop.write
    /\ last.addr = 31 /\ last.value = <<41536>>
    /\ last.ret.raw = <<CR, 65, 50, 52, 48, LF>>
    /\ out = Printed("value", <<"0","x","A","2","4","0">>)

-----------------------------------------------------------------------------
(* Script framing: the script command on every short text over a menu of    *)
(* lines                                                                    *)

MaxLines == 3

\* begin, end, a register read, a config command, a comment line, an end line
\* with a comment, an indented begin, an empty line.
LineMenu ==
    { <<"b","e","g","i","n">>,
      <<"e","n","d">>,
      <<"1">>,
      <<"c","o","n","f","i","g"," ","e","x","t"," ","y","e","s">>,
      <<"/","/"," ","n","o","t","e">>,
      <<"e","n","d"," ","/","/"," ","d","o","n","e">>,
      <<" ","b","e","g","i","n">>,
      <<>> }

RECURSIVE Join(_, _)
Join(lines, sep) ==
    IF lines = <<>> THEN <<>>
    ELSE IF Len(lines) = 1 THEN lines[1]
    ELSE lines[1] \o sep \o Join(Tail(lines), sep)

\* Every text of up to MaxLines lines of the menu, with LF or CR LF line ends.
ScriptTexts ==
    UNION { { Join(ls, sep) : ls \in [1..n -> LineMenu], sep \in {<<"\n">>, <<"\r", "\n">>} }
            : n \in 0..MaxLines }

ScriptPath == <<"s">>

InitScript == \E text \in ScriptTexts : InitWith(ScriptPath :> text)

NextScript ==
    \/ Input(<<W_script, ScriptPath>>)
    \/ ScriptStep
    \/ ReadAttempt
    \/ \E r \in Replies : DeviceReply(r, Delays)

SpecScript == InitScript /\ [][NextScript]_vars

\* CmdDecision is about to be called: by the prompt, or by a script that has
\* a command line left.
Dispatching ==
    /\ Running /\ ~txn.active /\ ~loop.busy
    /\ scripts = <<>> \/ scripts[Len(scripts)] # <<>>

\* After comment stripping and removal of empty lines, the first line is not
\* begin or the last is not end (or no line is left).
BadlyFramed(text) ==
    LET ls == ScriptLines(text)
    IN  \/ ls = <<>>
        \/ ls[1] # W_begin
        \/ ls[Len(ls)] # W_end

\* C5: running a script whose first remaining line is not begin or whose last
\* is not end reports the format error and dispatches nothing: no frame of
\* commands is opened, no request is written, no transaction started, and the
\* session configuration stays as it was.
C5_BadFramingRunsNothing ==
    [][ ( /\ Dispatching
          /\ Len(cmdline') >= 2
          /\ cmdline'[1] = W_script
          /\ cmdline'[2] \in DOMAIN fs
          /\ BadlyFramed(fs[cmdline'[2]]) )
        => ( /\ out' = Printed("Bad file format. ", <<>>)
             /\ status' = "running"
             /\ Len(scripts') <= Len(scripts)
             /\ Len(tx') <= Len(tx)
             /\ ~txn'.active /\ ~loop'.busy
             /\ UNCHANGED <<phy_addr, ext, pretty_print>> ) ]_vars

\* A script that begins with begin, holds a command and lacks its end was
\* refused.
C5_Witness ==
    /\ cmdline = <<W_script, ScriptPath>>
    /\ out = Printed("Bad file format. ", <<>>)
    /\ LET ls == ScriptLines(fs[ScriptPath])
       IN  Len(ls) >= 2 /\ ls[1] = W_begin /\ ls[2] = <<"1">>
    /\ tx = <<>> /\ scripts = <<>>

-----------------------------------------------------------------------------
(* PHY scan                                                                 *)

Reply0000 == <<48, 48, 48, 48, 13, 10>>
ReplyFFFF == <<70, 70, 70, 70, 13, 10>>
ScanReplies == {ReplyA240, Reply0000, ReplyFFFF, ReplyNoLF}

ScanCmds ==
    { <<<<"s","c","a","n">>>>,
     <<<<"c","o","n","f","i","g">>, <<"p","h","y">>, <<"5">>>> }

NextScan ==
    \/ \E cmd \in ScanCmds : Input(cmd)
    \/ ScanStep
    \/ ReadAttempt
    \/ \E r \in ScanReplies : DeviceReply(r, Delays)

SpecScan == Init /\ [][NextScan]_vars

\* C6: through a scan and after it, phy_addr is the first address the scan
\* reported found when no PHY was selected before it (-1 while none is
\* found), and is what it was before the scan otherwise.
C6_ScanSelectsFirst ==
    loop.kind = "scan" =>
        phy_addr = IF loop.orig = -1 THEN loop.found ELSE loop.orig

\* A scan that began with no PHY selected has ended: address 3 was the first
\* reported found and stays selected although address 15 was found as well.
C6_Witness ==
    /\ loop.kind = "scan" /\ ~loop.busy
    /\ loop.orig = -1 /\ loop.found = 3
    /\ phy_addr = 3
    /\ out.msg = "Found"

\* The reply is valid and its hex digits are 0000 or FFFF.
NullId(ret) ==
    /\ ret.got
    /\ Len(ret.raw) = 6 /\ ret.raw[6] = LF
    /\ \E at \in 1..5 : /\ ret.raw[at] = CR
                        /\ SubSeq(ret.raw, 1, at - 1) \o SubSeq(ret.raw, at + 1, 5)
                              \in {<<48, 48, 48, 48>>, <<70, 70, 70, 70>>}

\* C7: in a scan, an address whose identifier read returned 0000 or FFFF is
\* reported "Not found" and is not selected.
C7_NullIdNotFound ==
    [][ ( /\ Running /\ loop.kind = "scan" /\ loop.busy /\ ~txn.active
          /\ last.set /\ NullId(last.ret) )
        => ( /\ out'.msg = "Not found"
             /\ phy_addr' = phy_addr ) ]_vars

-----------------------------------------------------------------------------
(* Claims about the interpreter as a whole, under Spec                      *)

\* C8: with the session set by config to PHY p (0..31) and a mode, a bare
\* register token a (0..31) writes exactly one request: the two decimal digits
\* of p, the four hex digits of a, the session's mode character and "/"; after
\* config phy 5 and config ext no, the command 1 writes 050001=/.
C8_ConfigPersists ==
    (loop.kind = "rw" /\ ~loop.write /\ Len(cmdline) = 1
        /\ loop.i \in 0..31 /\ phy_addr \in 0..31) =>
        /\ Current.on
        /\ Sent(Current.first) =
              << <<LowerHex[(phy_addr \div 10) + 1], LowerHex[(phy_addr % 10) + 1]>>
                 \o Hex4(loop.i) \o <<ext, "/">> >>
        /\ scripts = <<>> => Len(tx) = 1
        /\ (phy_addr = 5 /\ ext = "=" /\ cmdline = <<<<"1">>>>) =>
              tx = <<<<"0","5","0","0","0","1","=","/">>>>

\* After config phy 5 (the mode left or set back to "="), the command 1 has
\* written 050001=/ and returned.
C8_Witness ==
    /\ cmdline = <<<<"1">>>>
    /\ phy_addr = 5 /\ ext = "="
    /\ last.set /\ status = "running"
    /\ tx = <<<<"0","5","0","0","0","1","=","/">>>>

\* The reply is 6 bytes: 4 hex digits with one carriage return among or after
\* them, and a line feed.
WellFormedReply(ret) ==
    /\ ret.got
    /\ Len(ret.raw) = 6 /\ ret.raw[6] = LF
    /\ \E at \in 1..5 :
          /\ ret.raw[at] = CR
          /\ \A k \in (1..5) \ {at} : HexByteValue(ret.raw[k]) >= 0

\* C9: whatever tokens are dispatched, the interpreter does not terminate
\* abnormally as long as the transport answers with well-formed replies: an
\* uncaught exception is only ever the consequence of a request that was not
\* answered with a well-formed reply.
C9_NoAbnormalEnd ==
    status = "crashed" => (last.set /\ ~WellFormedReply(last.ret))

\* C10: a request that got no 6 bytes in its 50 read attempts ends in a "No
\* reply..." error shown to the operator, and the interpreter goes on.
C10_TimeoutNotFatal ==
    (last.set /\ ~last.ret.got) =>
        /\ status = "running"
        /\ (~pretty_print /\ loop.kind # "scan") => out = Printed("No reply...", <<>>)

-----------------------------------------------------------------------------
(* Register dump: dump with and without a range, against a device that      *)
(* answers in time, late or not at all                                      *)

DumpCmds ==
    { <<W_dump>>,
      <<W_dump, <<"1","e">>, <<"2","1">>>>,
      <<W_dump, <<"3">>, <<"1">>>>,
      <<W_dump, <<"1">>>>,
      <<W_dump, <<"z","z">>, <<"1">>>>,
      <<W_dump, <<"1">>, <<"z","z">>>>,
      <<W_config, W_ext, <<"y","e","s">>>>,
      <<W_config, W_phy, <<"5">>>> }

NextDump ==
    \/ \E cmd \in DumpCmds : Input(cmd)
    \/ DumpStep
    \/ ReadAttempt
    \/ DeviceReply(ReplyA240, Delays)

SpecDump == Init /\ [][NextDump]_vars

\* The requests of one read transaction per address of a..end, ascending.
RECURSIVE ReadsOf(_, _, _, _)
ReadsOf(phy, e, a, end) ==
    IF a > end THEN <<>>
    ELSE (IF a > 31 THEN ExtRequests(phy, a, NoValue)
          ELSE <<Request(phy, e, a, NoValue)>>) \o ReadsOf(phy, e, a + 1, end)

\* The requests the dump command cmd is to write.
DumpReads(cmd) ==
    IF Len(cmd) = 1 THEN ReadsOf(phy_addr, ext, 0, 31)
    ELSE IF Len(cmd) >= 3 /\ ParseInt(cmd[2], 16).ok /\ ParseInt(cmd[3], 16).ok
    THEN ReadsOf(phy_addr, ext, ParseInt(cmd[2], 16).val, ParseInt(cmd[3], 16).val)
    ELSE <<>>

\* The dump command has ended: it returned, or the process ended under it.
DumpEnded ==
    /\ cmdline # <<>> /\ cmdline[1] = W_dump
    /\ status = "crashed" \/ (~txn.active /\ ~loop.busy)

\* C11: a dump writes exactly the requests of one read transaction per
\* address of its range, ascending: 0x00..0x1F without arguments, s..e with
\* two hexadecimal arguments (none when s > e, the extended protocol above
\* 31), and none at all when s or e is missing or is not hexadecimal.
C11_DumpReads ==
    DumpEnded => tx = DumpReads(cmdline)

\* The same for the dumps that returned to the prompt.
C11_ReturnedDumpReads ==
    (DumpEnded /\ status = "running") => tx = DumpReads(cmdline)

-----------------------------------------------------------------------------
(* Script execution: a script with failing commands and nested scripts      *)

\* outer: reads 1 and 2 around a nested script, an invalid register token, a
\* bad value, a missing nested file and a badly framed nested file.
\* inner: reads 3.  bare: a read of 4 without begin and end.
NestFiles ==
    (<<"o","u","t","e","r">> :>
        Join(<<W_begin, <<"1">>, <<"s","c","r","i","p","t"," ","i","n","n","e","r">>,
               <<"z","z">>, <<"1"," ","z","z">>,
               <<"s","c","r","i","p","t"," ","n","o","f","i","l","e">>,
               <<"s","c","r","i","p","t"," ","b","a","r","e">>,
               <<"2">>, W_end>>, <<"\n">>)) @@
    (<<"i","n","n","e","r">> :> Join(<<W_begin, <<"3">>, W_end>>, <<"\n">>)) @@
    (<<"b","a","r","e">> :> <<"4", "\n">>)

InitNest == InitWith(NestFiles)

NextNest ==
    \/ Input(<<W_script, <<"o","u","t","e","r">>>>)
    \/ ScriptStep
    \/ ReadAttempt
    \/ \E r \in Replies : DeviceReply(r, Delays)

SpecNest == InitNest /\ [][NextNest]_vars

\* The run of a script has ended: it returned to the prompt, or the process
\* ended under it.
RunEnded ==
    /\ cmdline # <<>>
    /\ status = "crashed" \/ AtPrompt

\* What the lines of outer write when each is dispatched once, in file order,
\* the line of inner after the nested script command and before the next line.
OuterReads ==
    <<Request(phy_addr, ext, 1, NoValue),
      Request(phy_addr, ext, 3, NoValue),
      Request(phy_addr, ext, 2, NoValue)>>

\* C12: the run of a well-framed script dispatches every line once and in
\* file order, those of a nested script in the place of its script command,
\* and a failing command keeps no later line from being dispatched: when the
\* run of outer has ended, the reads of 1, 3 and 2 were written in this
\* order, whatever failed on the way.
C12_EveryLineRuns ==
    RunEnded => tx = OuterReads

\* The same for the runs that returned to the prompt.
C12_ReturnedRunsEveryLine ==
    (RunEnded /\ status = "running") => tx = OuterReads

-----------------------------------------------------------------------------
(* Ignorable script lines: blank, whitespace-only and comment-only lines,   *)
(* and framing lines with an inline comment                                 *)

\* begin, end, a register read, a line of blanks, a comment, an indented
\* comment, and a begin line followed by a comment.
BlankMenu ==
    { W_begin,
      W_end,
      <<"1">>,
      <<" "," ">>,
      <<"/","/"," ","n","o","t","e">>,
      <<" "," ","/","/"," ","n","o","t","e">>,
      <<"b","e","g","i","n"," ","/","/"," ","s","t","a","r","t">> }

BlankTexts ==
    UNION { { Join(ls, <<"\n">>) : ls \in [1..n -> BlankMenu] } : n \in 0..(MaxLines + 1) }

InitBlank == \E text \in BlankTexts : InitWith(ScriptPath :> text)

NextBlank ==
    \/ Input(<<W_script, ScriptPath>>)
    \/ ScriptStep
    \/ ReadAttempt
    \/ DeviceReply(ReplyA240, Delays)

SpecBlank == InitBlank /\ [][NextBlank]_vars

\* The lines of a text that are not blank, not whitespace only and not a
\* comment only, each as its words before any comment.
Meaningful(text) ==
    LET conts == SplitLines(text, <<>>)
        words == [i \in 1..Len(conts) |-> SplitWords(BeforeComment(conts[i]), <<>>)]
    IN  SelectSeq(words, LAMBDA w : w # <<>>)

\* One read of register 1 for each line "1" between the framing lines.
RECURSIVE ReadsOfLines(_)
ReadsOfLines(ls) ==
    IF ls = <<>> THEN <<>>
    ELSE (IF Head(ls) = <<<<"1">>>> THEN <<Request(phy_addr, ext, 1, NoValue)>> ELSE <<>>)
         \o ReadsOfLines(Tail(ls))

\* What the run of the script ought to have done when the ignorable lines
\* are ignored.
IgnoringLines ==
    LET ls == Meaningful(fs[ScriptPath])
    IN  /\ status = "running"
        /\ IF ls # <<>> /\ ls[1] = <<W_begin>> /\ ls[Len(ls)] = <<W_end>>
           THEN /\ tx = ReadsOfLines(SubSeq(ls, 2, Len(ls) - 1))
                /\ out # Printed("Bad file format. ", <<>>)
           ELSE /\ tx = <<>>
                /\ out = Printed("Bad file format. ", <<>>)

\* C13: blank lines, whitespace-only lines and comment-only lines (indented
\* or not) dispatch nothing, do not count for the framing check and leave the
\* other lines to run, and a begin or end line with an inline comment is a
\* framing line: a run that has ended did what the remaining lines say.
C13_IgnorableLines ==
    RunEnded => IgnoringLines

\* The text has no blank inside a line: its lines are begin, end, 1, empty,
\* or a comment that starts the line.
NoInnerBlank(text) ==
    \A i \in 1..Len(text) :
        text[i] = " " => \E j \in 1..(i - 1) : text[j] = "/" /\ text[j + 1] = "/" /\
                            \A k \in j..i : text[k] # "\n"

\* The same for the scripts without a blank before any comment, when the run
\* returned to the prompt.
C13_PlainLinesIgnored ==
    (RunEnded /\ status = "running" /\ NoInnerBlank(fs[ScriptPath])) => IgnoringLines

-----------------------------------------------------------------------------
(* Boolean configuration tokens: config ext / config pretty with every      *)
(* accepted token and some that are not                                     *)

\* The tokens the claim lists as switching a field on and off.
OnTokens ==
    {<<"y","e","s">>, <<"y">>, <<"Y","E","S">>, <<"Y">>, <<"t","r","u","e">>,
     <<"T","r","u","e">>, <<"1">>}
OffTokens ==
    {<<"n","o">>, <<"n">>, <<"N","O">>, <<"f","a","l","s","e">>, <<"F","a","l","s","e">>,
     <<"0">>}
\* Tokens that are neither: N, TRUE, no in mixed case, a number, a word.
OtherTokens ==
    {<<"N">>, <<"T","R","U","E">>, <<"N","o">>, <<"2">>, <<"o","n">>}

ConfigCmds ==
    { <<W_config, f, t>> : f \in {W_ext, W_pretty},
                           t \in OnTokens \cup OffTokens \cup OtherTokens }
    \cup { <<W_config, W_phy, <<"5">>>>, <<W_phy, <<"7">>>>, <<W_config>> }

NextConfig == \E cmd \in ConfigCmds : Input(cmd)

SpecConfig == Init /\ [][NextConfig]_vars

\* The value of a boolean field after config with token t.
Switched(t, on, off, now) ==
    IF t \in OnTokens THEN on ELSE IF t \in OffTokens THEN off ELSE now

-----------------------------------------------------------------------------
(* Reply polling: direct and extended transactions against a device whose   *)
(* answer arrives whole, in pieces, in part or not at all                    *)

PollCmds ==
    { <<<<"1">>>>,
      <<<<"2","0">>>>,
      <<<<"2","0">>, <<"1">>>>,
      <<W_config, W_pretty, <<"y","e","s">>>> }

NextPoll ==
    \/ \E cmd \in PollCmds : Input(cmd)
    \/ ReadAttempt
    \/ \E k \in 1..6 : DeviceSend(ReplyA240, k)

\* The loop of ReceiveRegReply goes on by itself: each com_port.read returns
\* after the port's timeout at the latest (line 466).
SpecPoll == Init /\ [][NextPoll]_vars /\ WF_vars(ReadAttempt)

\* A step of the transaction in progress: one read attempt.
ReadStep == Running /\ txn.active /\ (txn' # txn \/ status' # status)

\* C15: a request is read for at most 50 times (less than 50 attempts lie
\* behind while one is awaited), each request of a transaction is written
\* once (a direct transaction has 1, an extended one at most 5, so that they
\* make at most 50 and 250 attempts), a read attempt that finds 6 bytes ends
\* the wait for the request, one that finds fewer writes nothing, and every
\* transaction ends, with a reply of 6 bytes or with none, whatever the
\* device sends and whenever.
C15_BoundedPolling ==
    /\ [](txn.active =>
            /\ txn.attempts <= 49
            /\ Len(Sent(txn.first)) = txn.step
            /\ txn.step <= (IF txn.addr > 31 THEN 5 ELSE 1))
    /\ [](last.set => (last.ret.got => Len(last.ret.raw) = 6))
    /\ [][ ReadStep =>
             /\ Len(rx) >= 6 =>
                   (~txn'.active \/ txn'.step = txn.step + 1 \/ status' = "crashed")
             /\ (Len(rx) < 6 /\ txn.attempts < 49) =>
                   (txn'.attempts = txn.attempts + 1 /\ txn'.step = txn.step /\ tx' = tx)
             /\ Len(tx') <= Len(tx) + 1 ]_vars
    /\ ((Running /\ txn.active) ~> (~txn.active \/ ~Running))

\* The last request of an extended write is at its 50th read attempt, after
\* short reads that returned part of an answer.
C15_Witness ==
    /\ txn.active /\ txn.addr > 31 /\ txn.value # NoValue
    /\ txn.step = 5 /\ txn.attempts = 49
    /\ Len(txn.lost) = 5

-----------------------------------------------------------------------------
(* Access path: reads and writes on both sides of address 31, in both        *)
(* session modes, with bytes left in the port                                *)

\* An answer followed by two bytes nobody asked for.
ReplyAndMore == ReplyA240 \o <<65, 50>>

PathCmds ==
    { <<<<"1","f">>>>,
      <<<<"2","0">>>>,
      <<<<"1","f">>, <<"1">>>>,
      <<<<"2","0">>, <<"1">>>>,
      <<W_dump, <<"1","f">>, <<"2","0">>>>,
      <<W_config, W_ext, <<"y","e","s">>>>,
      <<W_config, W_ext, <<"n","o">>>> }

NextPath ==
    \/ \E cmd \in PathCmds : Input(cmd)
    \/ DumpStep
    \/ ReadAttempt
    \/ \E r \in {ReplyA240, ReplyAndMore} : DeviceReply(r, Delays)

SpecPath == Init /\ [][NextPath]_vars

\* The mode character and the register field of a request.
ModeOf(req) == req[Len(req) - 1]
RegisterOf(req) == SubSeq(req, 3, 6)

\* C16: a register command with address <= 31 writes one request, for that
\* address and with the session's mode character; one with address > 31
\* writes the requests of the extended protocol (to registers 0x0d and 0x0e),
\* each with mode "=" also when the session's mode is "*".  The bytes left in
\* the port are discarded when the first request of a command is written and
\* not again before its later requests.
C16_AccessPath ==
    /\ [](Current.on =>
            LET sent == Sent(Current.first)
            IN  IF Current.addr <= 31
                THEN /\ Len(sent) = 1
                     /\ ModeOf(sent[1]) = ext
                     /\ RegisterOf(sent[1]) = Hex4(Current.addr)
                ELSE \A i \in 1..Len(sent) :
                        /\ ModeOf(sent[i]) = "="
                        /\ RegisterOf(sent[i]) \in {Hex4(13), Hex4(14)})
    /\ [][ /\ (~txn.active /\ txn'.active) => (rx' = <<>> /\ Len(tx') = txn'.first)
           /\ (txn.active /\ txn'.active /\ txn'.step # txn.step) =>
                 (rx' = Drop(rx, 6) /\ Len(tx') = Len(tx) + 1) ]_vars

\* With the session's mode "*", the extended read of 0x20 has written its
\* second request while two bytes that followed the first answer are still in
\* the port.
C16_Witness ==
    /\ ext = "*"
    /\ txn.active /\ txn.addr = 32 /\ txn.step = 2
    /\ rx = <<65, 50>>
    /\ ModeOf(tx[Len(tx)]) = "="

-----------------------------------------------------------------------------
(* Session configuration: which commands change it                           *)

FrameCmds ==
    { <<W_config, W_phy, <<"5">>>>,
      <<W_config, W_phy, <<"z","z">>>>,
      <<W_config, W_phy, <<"1",".","5">>>>,
      <<W_config, <<"f","o","o">>, <<"y","e","s">>>>,
      <<W_config, W_ext, <<"y","e","s">>>>,
      <<W_config, W_pretty, <<"y","e","s">>>>,
      <<<<"1">>>>,
      <<<<"1">>, <<"2">>>>,
      <<<<"2","0">>>>,
      <<W_dump, <<"1","f">>, <<"2","0">>>>,
      <<W_info>>,
      <<<<"h","e","l","p">>>>,
      <<W_regs>>,
      <<W_scan>> }

NextFrame ==
    \/ \E cmd \in FrameCmds : Input(cmd)
    \/ DumpStep
    \/ ScanStep
    \/ ReadAttempt
    \/ \E r \in {ReplyA240, ReplyNoLF} : DeviceReply(r, Delays)

SpecFrame == Init /\ [][NextFrame]_vars

\* The command c, as it stands after the step, is one the claim lists: not
\* config, phy, scan or script (a register read or write, dump, info, help,
\* regs), a scan begun with a PHY selected, a config phy whose value is no
\* decimal integer, or a three-token config of an unknown field.
LeavesSession(c, l) ==
    /\ c # <<>>
    /\ \/ c[1] \notin {W_config, W_phy, W_scan, W_script}
       \/ c[1] = W_scan /\ l.kind = "scan" /\ l.orig # -1
       \/ c[1] = W_config /\ Len(c) = 3 /\ c[2] = W_phy /\ ~ParseInt(c[3], 10).ok
       \/ c[1] = W_config /\ Len(c) = 3 /\ c[2] \notin {W_phy, W_ext, W_pretty}

\* C17: no step of a register read or write, a dump, info, help, regs, a scan
\* begun with a PHY selected, a config phy with a value that is no decimal
\* integer or a three-token config of an unknown field changes phy_addr, ext
\* or pretty_print, whatever the device answers.
C17_ConfigFrame ==
    [][ LeavesSession(cmdline', loop') => UNCHANGED <<phy_addr, ext, pretty_print>> ]_vars

\* A scan begun with PHY 5 selected, in extended mode, has ended: it found
\* address 0 and PHY 5 is still the one selected.
C17_Witness ==
    /\ cmdline = <<W_scan>>
    /\ loop.kind = "scan" /\ ~loop.busy
    /\ loop.orig = 5 /\ loop.found = 0
    /\ phy_addr = 5 /\ ext = "*"

-----------------------------------------------------------------------------
(* Request grammar, under Spec                                               *)

DecimalDigits == {"0","1","2","3","4","5","6","7","8","9"}
HexDigits == DecimalDigits \cup {"a","b","c","d","e","f"}

\* Two decimal digits, four lowercase hex digits, four more for a write, a
\* mode character and "/".
WellFormedRequest(req) ==
    /\ Len(req) \in {8, 12}
    /\ \A i \in 1..2 : req[i] \in DecimalDigits
    /\ \A i \in 3..(Len(req) - 2) : req[i] \in HexDigits
    /\ req[Len(req) - 1] \in {"*", "="}
    /\ req[Len(req)] = "/"

\* C18: every request written to the transport has the fixed form, 8
\* characters for a read and 12 for a write, from the initial session on and
\* after any commands.
C18_RequestGrammar ==
    \A i \in 1..Len(tx) : WellFormedRequest(tx[i])

-----------------------------------------------------------------------------
(* Answers that arrive in pieces, under SpecPoll                             *)

\* The bytes the reads for the last request of the returned transaction took
\* from the port: those of its short reads, then those of its 6-byte read.
Delivered == last.lost \o last.ret.raw

\* C19: when the 6 bytes of a well-formed answer have reached the port and
\* were read within the 50 attempts for the request, in one read or split
\* over several, the transaction returns the value of that answer.
C19_SplitReplyKept ==
    (last.set /\ Delivered = ReplyA240) =>
        /\ last.ret.got
        /\ GetRegResult(last.ret).value = <<"0","x","A","2","4","0">>

\* The same when the answer was in the port as a whole at some read attempt.
C19_WholeReplyReturned ==
    (last.set /\ last.ret.got) =>
        /\ last.ret.raw = ReplyA240
        /\ GetRegResult(last.ret).value = <<"0","x","A","2","4","0">>

-----------------------------------------------------------------------------
(* Nested scripts with and without a cycle                                   *)

P_a == <<"a">>
P_b == <<"b">>
P_c == <<"c">>
P_d == <<"d">>
P_e == <<"e">>

\* a runs b (no cycle); c runs itself; d runs e, which runs d.
CycleFiles ==
    (P_a :> Join(<<W_begin, <<"1">>, <<"s","c","r","i","p","t"," ","b">>, <<"1","f">>, W_end>>, <<"\n">>)) @@
    (P_b :> Join(<<W_begin, <<"2">>, W_end>>, <<"\n">>)) @@
    (P_c :> Join(<<W_begin, <<"1">>, <<"s","c","r","i","p","t"," ","c">>, <<"2">>, W_end>>, <<"\n">>)) @@
    (P_d :> Join(<<W_begin, <<"s","c","r","i","p","t"," ","e">>, W_end>>, <<"\n">>)) @@
    (P_e :> Join(<<W_begin, <<"2">>, <<"s","c","r","i","p","t"," ","d">>, W_end>>, <<"\n">>))

InitCycle == InitWith(CycleFiles)

CycleCmds ==
    { <<W_script, P_a>>, <<W_script, P_b>>, <<W_script, P_c>>, <<W_script, P_d>>,
      <<W_config, W_pretty, <<"y","e","s">>>> }

NextCycle ==
    \/ \E cmd \in CycleCmds : Input(cmd)
    \/ ScriptStep
    \/ ReadAttempt
    \/ DeviceReply(ReplyA240, Delays)

\* The interpreter runs on by itself: the read loop and the loop over the
\* lines of a script take their next step.
SpecCycle ==
    InitCycle /\ [][NextCycle]_vars /\ WF_vars(ReadAttempt) /\ WF_vars(ScriptStep)

\* The file a line "script x" names, as a set (empty for any other line).
Included(line) ==
    LET w == SplitWords(line, <<>>)
    IN  IF Len(w) >= 2 /\ w[1] = W_script /\ w[2] \in DOMAIN CycleFiles THEN {w[2]} ELSE {}

\* The files each script of CycleFiles runs by its script lines.
Includes ==
    [p \in DOMAIN CycleFiles |->
        LET ls == ScriptLines(CycleFiles[p])
        IN  IF ls # <<>> /\ ls[1] = W_begin /\ ls[Len(ls)] = W_end
            THEN UNION {Included(ls[i]) : i \in 1..Len(ls)}
            ELSE {}]

\* The files reached from p by one script line, by up to two, ... up to five
\* (there are five files).
Step1 == Includes
Step2 == [p \in DOMAIN CycleFiles |-> Step1[p] \cup UNION {Includes[q] : q \in Step1[p]}]
Step3 == [p \in DOMAIN CycleFiles |-> Step2[p] \cup UNION {Includes[q] : q \in Step2[p]}]
Step4 == [p \in DOMAIN CycleFiles |-> Step3[p] \cup UNION {Includes[q] : q \in Step3[p]}]
Step5 == [p \in DOMAIN CycleFiles |-> Step4[p] \cup UNION {Includes[q] : q \in Step4[p]}]

\* The scripts from which the chain of nested script commands contains a
\* cycle: those on a cycle and those that reach one.
OnCycle == {q \in DOMAIN CycleFiles : q \in Step5[q]}
CyclicScripts == {p \in DOMAIN CycleFiles : p \in OnCycle \/ Step5[p] \cap OnCycle # {}}
CyclicRun(p) == p \in CyclicScripts

\* The frame has a script line yet to be dispatched that leads to a cycle.
PendingCycle(frame) ==
    \E i \in 1..Len(frame) : \E q \in Included(frame[i]) : CyclicRun(q)

InCyclicRun == scripts # <<>> /\ PendingCycle(scripts[Len(scripts)])

InAcyclicRun ==
    /\ Running /\ scripts # <<>>
    /\ \A i \in 1..Len(scripts) : ~PendingCycle(scripts[i])

====
